---- MODULE Spec2Model ----
(***************************************************************************)
(* The two multiplexed magnetometer sketches of the repository:            *)
(*   "V2"  : src/unnamed/part_000 (Multi-Sensor Control V2, 8 boards,      *)
(*           per-board sensor counts, snapshot buffer allReadings)         *)
(*   "Mux" : src/MuxMultiSensor/MuxMultiSensor.ino (20 boards x 5 sensors, *)
(*           read and print interleaved)                                   *)
(* setup() and loop() are run to completion as the Arduino core runs them; *)
(* every bus transaction, timed delay, buffer write and Serial.print they  *)
(* issue is appended, in program order, to the event trace of the running  *)
(* handler invocation.                                                     *)
(***************************************************************************)
EXTENDS Integers, Sequences, FiniteSets, TLC

VARIABLES
    sketch,               \* which of the two sketches is flashed
    pc,                   \* what the core runs next: "setup", "loop", "emit"
    devStatus,            \* environment: status code begin() returns per (board, slot)
    sample,               \* environment: the field sample the devices hold this cycle
    muxReg,               \* the TCA9548A control register (last mask written)
    sensorIsInitialized,  \* bool sensorIsInitialized[NUMBER_OF_BOARDS][5]
    allReadings,          \* V2: struct AllSensorReadings {readings, isValid}
    data,                 \* Mux: MLX90393::txyz data[NUMBER_OF_BOARDS][5]
    trace                 \* events of the current setup()/loop() invocation

vars == <<sketch, pc, devStatus, sample, muxReg, sensorIsInitialized,
          allReadings, data, trace>>

(***************************** bounds **************************************)
\* at most this many devices, all on one board, differ from all the others
MaxMinority == 2
\* the devices' field sample of a cycle is drawn from 1..MaxSample
MaxSample == 2
\* SpecTca calls tcaSelect with arguments 0..MaxChannelArg
MaxChannelArg == 9

(************************* program constants *******************************)
NUMBER_OF_BOARDS_V2 == 8
NUMBER_OF_BOARDS == 20
NUMBER_OF_SENSORS_PER_BOARD == 5
MAX_SLOTS == 5
REG_MODULUS == 256

Sketches == {"V2", "Mux"}

\* boardConfig[board].numSensors, board 0 first
boardConfig == <<5, 5, 5, 1, 1, 1, 1, 1>>

NumberOfBoards(sk) == IF sk = "V2" THEN NUMBER_OF_BOARDS_V2 ELSE NUMBER_OF_BOARDS

Boards(sk) == 0 .. NumberOfBoards(sk) - 1

Slots == 0 .. MAX_SLOTS - 1

\* mutant of NumSensors: every board treated as a 5X board
NumSensorsFull(sk, board) == NUMBER_OF_SENSORS_PER_BOARD

\* the bound of the inner sensor loops
NumSensors(sk, board) ==
    IF sk = "V2" THEN boardConfig[board + 1] ELSE NUMBER_OF_SENSORS_PER_BOARD

\* the (board, slot) pairs the inner loops visit
Configured(sk) ==
    {e \in Boards(sk) \X Slots : e[2] < NumSensors(sk, e[1])}

ZeroReading == [x |-> 0, y |-> 0, z |-> 0]

\* the sample readBurstData delivers for (board, slot) while the field is v
DeviceSample(v, board, slot) ==
    [x |-> v + board, y |-> 0 - (v + slot), z |-> 100 * v + 5 * board + slot]

(***************************** events **************************************)
Ev(op, board, slot, val, reg, text) ==
    [op |-> op, board |-> board, slot |-> slot, val |-> val, reg |-> reg,
     text |-> text]

\* a handler's working state: the globals it writes and its event trace
Emit(m, op, board, slot, val, text) ==
    CHOOSE r \in {[x EXCEPT !.tr = Append(x.tr, Ev(op, board, slot, val, x.reg, text))] :
                     x \in {m}} : TRUE

PrintStr(m, board, slot, text) == Emit(m, "print", board, slot, 0, text)

PrintNum(m, board, slot, n) == Emit(m, "printNum", board, slot, n, "")

\* mutant of Delay: the wait is left out
DelaySkipped(m, board, micros) == m

\* delay(ms) and delayMicroseconds(us), in microseconds
Delay(m, board, micros) == Emit(m, "delay", board, 0, micros, "")

\* statement sequencing: the state m is computed, then Rest runs from it
Then(m, Rest(_)) == CHOOSE r \in {Rest(x) : x \in {m}} : TRUE

(************************ Bus Channel Selector *****************************)
\* mutant of TcaMask: the channel number written in place of its bit
TcaMaskIndex(i) == IF i > 7 THEN <<>> ELSE <<i % REG_MODULUS>>

\* mutant of TcaMask: the range check off by one
TcaMaskOffByOne(i) == IF i > 8 THEN <<>> ELSE <<(2 ^ i) % REG_MODULUS>>

\* the byte tcaSelect(i) writes to the multiplexer, none for i > 7
TcaMask(i) == IF i > 7 THEN <<>> ELSE <<(2 ^ i) % REG_MODULUS>>

\* the register after tcaSelect(i)
TcaSelect(reg, i) == IF TcaMask(i) = <<>> THEN reg ELSE TcaMask(i)[1]

\* tcaSelect(i) inside a handler; val is the register before the call
CallTcaSelect(m, i) ==
    LET r == TcaSelect(m.reg, i)
    IN  [m EXCEPT !.reg = r,
                  !.tr = Append(m.tr, Ev("select", i, 0, m.reg, r, ""))]

(************************ Sensor Endpoint Pool *****************************)
\* the settling delay after tcaSelect in setup(), in microseconds
SetupSettle(sk) == IF sk = "V2" THEN 20000 ELSE 50000

\* the delay after each sensor's initialization, in microseconds
SetupGap(sk) == IF sk = "V2" THEN 5000 ELSE 10000

\* mutant of InitOk: status 1 taken for success too
InitOkLenient(status) == status <= 1

\* the branch of setup() on begin()'s status: TRUE is the success branch
InitOk(status) == status = 0

\* mutant of SetFlag: a flag that is already set counts as a failed attempt
SetFlagFresh(m, board, slot, b) ==
    [Emit(m, "flag", board, slot, IF b THEN 1 ELSE 0, "")
        EXCEPT !.init[board, slot] = b /\ ~m.init[board, slot]]

\* sensorIsInitialized[board][slot] = b
SetFlag(m, board, slot, b) ==
    [Emit(m, "flag", board, slot, IF b THEN 1 ELSE 0, "")
        EXCEPT !.init[board, slot] = b]

\* mutant of InitSensor: the flag is written before the burst is armed
InitSensorFlagFirst(sk, st, board, sensor, m) ==
    LET status == st[<<board, sensor>>]
        m1 == Emit(m, "begin", board, sensor, status, "")
        m2 == IF InitOk(status)
              THEN Emit(SetFlag(Emit(m1, "log", board, sensor, 0, "OK"),
                                board, sensor, TRUE),
                        "startBurst", board, sensor, 15, "")
              ELSE SetFlag(Emit(m1, "log", board, sensor, status, "FAILED"),
                           board, sensor, FALSE)
    IN  Delay(m2, board, SetupGap(sk))

\* one iteration of the inner loop of setup(): begin, then either branch
InitSensor(sk, st, board, sensor, m) ==
    LET status == st[<<board, sensor>>]
        m1 == Emit(m, "begin", board, sensor, status, "")
        m2 == IF InitOk(status)
              THEN SetFlag(Emit(Emit(m1, "log", board, sensor, 0, "OK"),
                                "startBurst", board, sensor, 15, ""),
                           board, sensor, TRUE)
              ELSE SetFlag(Emit(m1, "log", board, sensor, status, "FAILED"),
                           board, sensor, FALSE)
    IN  Delay(m2, board, SetupGap(sk))

RECURSIVE InitSensors(_, _, _, _, _)
\* for (sensor = from; sensor < numSensors; sensor++) of setup()
InitSensors(sk, st, board, sensor, m) ==
    IF sensor >= NumSensors(sk, board) THEN m
    ELSE Then(InitSensor(sk, st, board, sensor, m),
              LAMBDA x : InitSensors(sk, st, board, sensor + 1, x))

RECURSIVE ClearUnusedFlags(_, _, _, _)
\* V2: for (sensor = numSensors; sensor < 5; sensor++) flag = false
ClearUnusedFlags(sk, board, sensor, m) ==
    IF sensor >= MAX_SLOTS THEN m
    ELSE Then(SetFlag(m, board, sensor, FALSE),
              LAMBDA x : ClearUnusedFlags(sk, board, sensor + 1, x))

\* one iteration of the board loop of setup()
InitBoard(sk, st, board, m) ==
    LET m1 == Delay(CallTcaSelect(m, board), board, SetupSettle(sk))
        m2 == InitSensors(sk, st, board, 0, m1)
    IN  IF sk = "V2" THEN ClearUnusedFlags(sk, board, NumSensors(sk, board), m2)
        ELSE m2

RECURSIVE InitBoards(_, _, _, _)
\* for (board = from; board < NUMBER_OF_BOARDS; board++) of setup()
InitBoards(sk, st, board, m) ==
    IF board >= NumberOfBoards(sk) THEN m
    ELSE Then(InitBoard(sk, st, board, m),
              LAMBDA x : InitBoards(sk, st, board + 1, x))

\* V2: allReadings zeroed for every board and all 5 slots at the end of setup()
ZeroAllReadings(sk) ==
    [readings |-> [e \in Boards(sk) \X Slots |-> ZeroReading],
     isValid  |-> [e \in Boards(sk) \X Slots |-> FALSE]]

\* setup() from its first to its last line
RunSetup(sk, st, m) ==
    LET m1 == InitBoards(sk, st, 0, Delay(m, 0, 10000))
        m2 == Emit(m1, "log", 0, 0, 0, "All sensors initialized. Mux Shield online.")
    IN  IF sk = "V2" THEN [m2 EXCEPT !.all = ZeroAllReadings(sk)] ELSE m2

(************************** Snapshot Collector *****************************)
\* mutant of ReadGate: the guard dropped
ReadGateAlways(flag) == TRUE

\* mutant of ReadGate: the guard negated
ReadGateInverted(flag) == ~flag

\* the guard of the read branch of loop(): if (sensorIsInitialized[board][sensor])
ReadGate(flag) == flag

\* mutant of StoreReading: a cell that is already valid keeps its reading
StoreReadingOnce(m, board, sensor, r) ==
    [Emit(m, "read", board, sensor, 0, "")
        EXCEPT !.all.readings[board, sensor] =
                   IF m.all.isValid[board, sensor] THEN @ ELSE r,
               !.all.isValid[board, sensor] = TRUE]

\* mutant of StoreReading: the reading is stored, the cell is not marked valid
StoreReadingUnmarked(m, board, sensor, r) ==
    [Emit(m, "read", board, sensor, 0, "")
        EXCEPT !.all.readings[board, sensor] = r]

\* V2: readBurstData(allReadings.readings[board][sensor]); isValid = true
StoreReading(m, board, sensor, r) ==
    [Emit(m, "read", board, sensor, 0, "")
        EXCEPT !.all.readings[board, sensor] = r,
               !.all.isValid[board, sensor] = TRUE]

\* mutant of ClearCell: clearing a cell also writes its flag
ClearCellAndFlag(m, board, sensor) ==
    [Emit(SetFlag(m, board, sensor, FALSE), "clear", board, sensor, 0, "")
        EXCEPT !.all.readings[board, sensor] = ZeroReading,
               !.all.isValid[board, sensor] = FALSE]

\* V2: readings[board][sensor] = {0, 0, 0}; isValid = false
ClearCell(m, board, sensor) ==
    [Emit(m, "clear", board, sensor, 0, "")
        EXCEPT !.all.readings[board, sensor] = ZeroReading,
               !.all.isValid[board, sensor] = FALSE]

\* V2: the body of the configured-slot loop of STEP 1
CollectSlot(v, board, sensor, m) ==
    IF ReadGate(m.init[board, sensor])
    THEN StoreReading(m, board, sensor, DeviceSample(v, board, sensor))
    ELSE ClearCell(m, board, sensor)

RECURSIVE CollectSlots(_, _, _, _)
CollectSlots(v, board, sensor, m) ==
    IF sensor >= NumSensors("V2", board) THEN m
    ELSE Then(CollectSlot(v, board, sensor, m),
              LAMBDA x : CollectSlots(v, board, sensor + 1, x))

RECURSIVE ClearUnused(_, _, _)
\* V2: for (sensor = numSensors; sensor < 5; sensor++) clear the cell
ClearUnused(board, sensor, m) ==
    IF sensor >= MAX_SLOTS THEN m
    ELSE Then(ClearCell(m, board, sensor),
              LAMBDA x : ClearUnused(board, sensor + 1, x))

\* mutant of CollectBoard: the unused slots are cleared before the reads
CollectBoardClearFirst(v, board, m) ==
    LET m1 == Delay(CallTcaSelect(m, board), board, 100)
        m2 == ClearUnused(board, NumSensors("V2", board), m1)
    IN  CollectSlots(v, board, 0, m2)

\* V2: one iteration of the board loop of STEP 1
CollectBoard(v, board, m) ==
    LET m1 == Delay(CallTcaSelect(m, board), board, 100)
        m2 == CollectSlots(v, board, 0, m1)
    IN  ClearUnused(board, NumSensors("V2", board), m2)

RECURSIVE CollectBoards(_, _, _)
\* V2: STEP 1 of loop()
CollectBoards(v, board, m) ==
    IF board >= NumberOfBoards("V2") THEN m
    ELSE Then(CollectBoard(v, board, m),
              LAMBDA x : CollectBoards(v, board + 1, x))

(***************************** Frame Emitter *******************************)
\* V2: "Board" board "Sensor" sensor axis value, one Serial.print each
PrintField(m, board, sensor, axis, value) ==
    PrintNum(PrintStr(PrintNum(PrintStr(PrintNum(PrintStr(m,
        board, sensor, "Board"), board, sensor, board),
        board, sensor, "Sensor"), board, sensor, sensor),
        board, sensor, axis), board, sensor, value)

\* V2: the body of the slot loop of STEP 2; first is firstValue
EmitSlot(first, board, sensor, m) ==
    LET r  == m.all.readings[board, sensor]
        m0 == IF ~first THEN PrintStr(m, board, sensor, "\t") ELSE m
        m1 == PrintStr(PrintField(m0, board, sensor, "X:", r.x), board, sensor, "\t")
        m2 == PrintStr(PrintField(m1, board, sensor, "Y:", r.y), board, sensor, "\t")
    IN  PrintField(m2, board, sensor, "Z:", r.z)

RECURSIVE EmitSlots(_, _, _, _)
\* V2: STEP 2 of loop() from (board, sensor) on; both loops in one recursion
EmitSlots(first, board, sensor, m) ==
    IF board >= NumberOfBoards("V2") THEN m
    ELSE IF sensor >= NumSensors("V2", board) THEN EmitSlots(first, board + 1, 0, m)
    ELSE Then(EmitSlot(first, board, sensor, m),
              LAMBDA x : EmitSlots(FALSE, board, sensor + 1, x))

\* mutant of EmitFrame: the closing Serial.println() is left out
EmitFrameUnterminated(m) == EmitSlots(TRUE, 0, 0, m)

\* V2: STEP 2 and the closing Serial.println()
EmitFrame(m) == Emit(EmitSlots(TRUE, 0, 0, m), "println", 0, 0, 0, "")

(****************************** Mux loop() *********************************)
\* mutant of yOffsets: the per-board plotter offset of the commented-out code
yOffsetsSpread(board) == board * 8000

\* int yOffsets[NUMBER_OF_BOARDS] = {0}
yOffsets(board) == 0

\* Mux: Serial.print("Board" + String(board) + "Sensor<axis>:"); print(value); tab
MuxPrintField(m, board, sensor, axis, value) ==
    PrintStr(PrintNum(PrintStr(PrintNum(PrintStr(m,
        board, sensor, "Board"), board, sensor, board),
        board, sensor, axis), board, sensor, value),
        board, sensor, "\t")

\* mutant of MuxPrintPlaceholder: a failed sensor prints nothing
MuxNoPlaceholder(m, board, sensor) == m

\* Mux: the placeholder branch: 0, yOffsets[board], 0, a tab after each
MuxPrintPlaceholder(m, board, sensor) ==
    PrintStr(PrintNum(PrintStr(PrintNum(PrintStr(PrintNum(m,
        board, sensor, 0), board, sensor, "\t"),
        board, sensor, yOffsets(board)), board, sensor, "\t"),
        board, sensor, 0), board, sensor, "\t")

\* Mux: the body of the sensor loop of loop()
MuxSlot(v, board, sensor, m) ==
    IF ReadGate(m.init[board, sensor])
    THEN LET r  == DeviceSample(v, board, sensor)
             m1 == [Emit(m, "read", board, sensor, 0, "")
                       EXCEPT !.data[board, sensor] = r]
             d  == m1.data[board, sensor]
         IN  MuxPrintField(MuxPrintField(MuxPrintField(m1,
                 board, sensor, "SensorX:", d.x),
                 board, sensor, "SensorY:", d.y),
                 board, sensor, "SensorZ:", d.z)
    ELSE MuxPrintPlaceholder(m, board, sensor)

RECURSIVE MuxSlots(_, _, _, _)
MuxSlots(v, board, sensor, m) ==
    IF sensor >= NUMBER_OF_SENSORS_PER_BOARD THEN m
    ELSE Then(MuxSlot(v, board, sensor, m),
              LAMBDA x : MuxSlots(v, board, sensor + 1, x))

\* Mux: one iteration of the board loop of loop()
MuxBoard(v, board, m) ==
    MuxSlots(v, board, 0, Delay(CallTcaSelect(m, board), board, 10000))

RECURSIVE MuxBoards(_, _, _)
MuxBoards(v, board, m) ==
    IF board >= NumberOfBoards("Mux") THEN m
    ELSE Then(MuxBoard(v, board, m),
              LAMBDA x : MuxBoards(v, board + 1, x))

\* Mux: loop() from its first to its last line
RunMuxLoop(v, m) ==
    Delay(Emit(MuxBoards(v, 0, m), "println", 0, 0, 0, ""), 0, 500)

(**************************** environment **********************************)
\* the nonzero status a device that does not initialise answers begin() with:
\* 0 is success, every other byte a failure
FailCode(board, slot) == IF slot % 2 = 0 THEN 255 ELSE 1

\* the sets of at most MaxMinority configured devices of one board
Minorities(sk) ==
    UNION {{F \in SUBSET {e \in Configured(sk) : e[1] = b} :
                Cardinality(F) <= MaxMinority} : b \in Boards(sk)}

\* the device populations: the devices of a minority F, all on one board, fail
\* begin() while every other device answers 0 (a faulty board), or the devices
\* of F answer 0 while every other device fails (one board plugged in)
DevicePopulations(sk) ==
    {[e \in Configured(sk) |->
        IF (e \in F) = faulty THEN FailCode(e[1], e[2]) ELSE 0] :
        F \in Minorities(sk), faulty \in BOOLEAN}

(****************************** actions ************************************)
\* the globals as a handler starts, with an empty event trace
Machine ==
    [reg |-> muxReg, init |-> sensorIsInitialized, all |-> allReadings,
     data |-> data, tr |-> <<>>]

\* the globals as a handler goes on, the events so far kept
Continue == [Machine EXCEPT !.tr = trace]

Commit(m) ==
    \E x \in {m} :
        /\ muxReg' = x.reg
        /\ sensorIsInitialized' = x.init
        /\ allReadings' = x.all
        /\ data' = x.data
        /\ trace' = x.tr

\* power-on: zero-initialised globals, no channel selected
Init ==
    /\ sketch \in Sketches
    /\ pc = "setup"
    /\ devStatus \in DevicePopulations(sketch)
    /\ sample = 0
    /\ muxReg = 0
    /\ sensorIsInitialized = [e \in Boards(sketch) \X Slots |-> FALSE]
    /\ allReadings = ZeroAllReadings(sketch)
    /\ data = [e \in Boards(sketch) \X Slots |-> ZeroReading]
    /\ trace = <<>>

\* setup()
Setup ==
    /\ pc = "setup"
    /\ Commit(RunSetup(sketch, devStatus, Machine))
    /\ pc' = "loop"
    /\ UNCHANGED <<sketch, devStatus, sample>>

\* V2 loop(), STEP 1: collect every board's readings
Collect ==
    /\ pc = "loop"
    /\ sketch = "V2"
    /\ \E v \in 1 .. MaxSample :
          /\ sample' = v
          /\ Commit(CollectBoards(v, 0, Machine))
    /\ pc' = "emit"
    /\ UNCHANGED <<sketch, devStatus>>

\* V2 loop(), STEP 2: print the record
EmitRecord ==
    /\ pc = "emit"
    /\ sketch = "V2"
    /\ Commit(EmitFrame(Continue))
    /\ pc' = "loop"
    /\ UNCHANGED <<sketch, devStatus, sample>>

\* Mux loop()
MuxLoop ==
    /\ pc = "loop"
    /\ sketch = "Mux"
    /\ \E v \in 1 .. MaxSample :
          /\ sample' = v
          /\ Commit(RunMuxLoop(v, Machine))
    /\ UNCHANGED <<sketch, pc, devStatus>>

Next == Setup \/ Collect \/ EmitRecord \/ MuxLoop

Spec == Init /\ [][Next]_vars

(*********************** the selector on its own ***************************)
\* any register content, before a single call of tcaSelect
InitTca ==
    /\ sketch = "V2"
    /\ pc = "tca"
    /\ devStatus = [e \in Configured("V2") |-> 0]
    /\ sample = 0
    /\ muxReg \in 0 .. REG_MODULUS - 1
    /\ sensorIsInitialized = [e \in Boards("V2") \X Slots |-> FALSE]
    /\ allReadings = ZeroAllReadings("V2")
    /\ data = [e \in Boards("V2") \X Slots |-> ZeroReading]
    /\ trace = <<>>

\* tcaSelect(i) for any argument, from any register content
TcaCall ==
    /\ pc = "tca"
    /\ \E i \in 0 .. MaxChannelArg : Commit(CallTcaSelect(Machine, i))
    /\ UNCHANGED <<sketch, pc, devStatus, sample>>

NextTca == TcaCall

SpecTca == InitTca /\ [][NextTca]_vars

(*************************** loop() forever ********************************)
\* the Arduino core calls loop() again as soon as it has returned, forever,
\* and every call made by setup() and loop() returns
\* The device populations taken here are those in which fewer than MaxMinority
\* devices differ from the rest.
LiveMinority == MaxMinority - 1

InitLive ==
    /\ Init
    /\ \/ Cardinality({e \in Configured(sketch) : devStatus[e] # 0}) <= LiveMinority
       \/ Cardinality({e \in Configured(sketch) : devStatus[e] = 0}) <= LiveMinority

SpecLive == InitLive /\ [][Next]_vars /\ WF_vars(Next)

(******************** the initialization run twice *************************)
\* setup() run a second time, in succession, on the globals and the register
\* the first run left and with the same devices; the trace keeps both runs
SetupAgain ==
    /\ pc = "loop"
    /\ sample = 0
    /\ Commit(RunSetup(sketch, devStatus, Continue))
    /\ pc' = "reinit"
    /\ UNCHANGED <<sketch, devStatus, sample>>

NextReinit == Setup \/ SetupAgain

SpecReinit == Init /\ [][NextReinit]_vars

(************************* reading the trace *******************************)
\* no cycle has run yet, setup() has returned
AfterSetup == pc = "loop" /\ sample = 0

\* V2: STEP 1 of the current cycle is complete
Collected == sketch = "V2" /\ pc = "emit"

\* a whole loop() invocation has just returned
CycleDone == pc = "loop" /\ sample > 0

\* the trace is that of a cycle, partial (V2 after STEP 1) or whole
InCycle == Collected \/ CycleDone

Events(op) == SelectSeq(trace, LAMBDA e : e.op = op)

EventsFor(op, board, slot) ==
    SelectSeq(trace, LAMBDA e : e.op = op /\ e.board = board /\ e.slot = slot)

\* the registry's sensor count of a board
SensorCount(board) ==
    IF sketch = "V2" THEN boardConfig[board + 1] ELSE NUMBER_OF_SENSORS_PER_BOARD

RegistrySlots ==
    {e \in Boards(sketch) \X Slots : e[2] < SensorCount(e[1])}

RECURSIVE SlotsBefore(_)
\* the number of configured slots of the boards before this one
SlotsBefore(board) ==
    IF board = 0 THEN 0 ELSE SlotsBefore(board - 1) + SensorCount(board - 1)

\* the position of a configured slot in board-then-slot order, from 0
SlotIndex(e) == SlotsBefore(e[1]) + e[2]

TotalSlots == SlotsBefore(NumberOfBoards(sketch))

Bit(r, j) == (r \div (2 ^ j)) % 2 = 1

IsTab(e) == e.op = "print" /\ e.text = "\t"

\* what was written to the serial port, one element per Serial.print
Printed == SelectSeq(trace, LAMBDA e : e.op \in {"print", "printNum"})

RECURSIVE SplitTabs(_, _, _)
\* toks[lo..hi] cut at every tab: k tabs give k + 1 pieces, empty ones included
SplitTabs(toks, lo, hi) ==
    IF lo > hi THEN << <<>> >>
    ELSE IF lo = hi
         THEN IF IsTab(toks[lo]) THEN << <<>>, <<>> >> ELSE << <<toks[lo]>> >>
    ELSE LET mid == (lo + hi) \div 2
             L == SplitTabs(toks, lo, mid)
             R == SplitTabs(toks, mid + 1, hi)
         IN  SubSeq(L, 1, Len(L) - 1) \o << L[Len(L)] \o R[1] >> \o Tail(R)

\* the fields of the record: the non-empty pieces between tabs
Fields ==
    SelectSeq(SplitTabs(Printed, 1, Len(Printed)), LAMBDA f : f # <<>>)

\* a field that ends in a printed number has that number as its value
HasValue(f, n) == f[Len(f)].op = "printNum" /\ f[Len(f)].val = n

IsStr(e, text) == e.op = "print" /\ e.text = text

IsNum(e, n) == e.op = "printNum" /\ e.val = n

\* the field reads Board<b>Sensor<s><axis>:<value>
Tagged(f, b, s, axis) ==
    /\ Len(f) = 6
    /\ IsStr(f[1], "Board") /\ IsNum(f[2], b)
    /\ IsStr(f[3], "Sensor") /\ IsNum(f[4], s)
    /\ IsStr(f[5], axis)
    /\ f[6].op = "printNum"

Axes == <<"X:", "Y:", "Z:">>

(******************************* claims ************************************)
\* the bus transactions addressed to a sensor
SensorOps == {"begin", "startBurst", "read"}

\* C1 (as stated): whenever begin, startBurst or a burst read is issued for
\* board b, in setup or in a cycle, of either sketch, the last mask written to
\* the multiplexer is 1 << b.
C1_ChannelIsBoard ==
    \A i \in 1 .. Len(trace) :
        trace[i].op \in SensorOps => trace[i].reg = 2 ^ trace[i].board

\* C2: tcaSelect(i) with i <= 7 leaves exactly bit i of the register set,
\* whatever it held; with i > 7 it leaves the register as it was.
C2_SelectOneHot ==
    (pc = "tca" /\ trace # <<>>) =>
        LET e == trace[Len(trace)]
        IN  /\ e.op = "select"
            /\ e.board <= 7 =>
                   \A j \in 0 .. 7 : Bit(muxReg, j) <=> (j = e.board)
            /\ e.board > 7 => muxReg = e.val

C2_Witness ==
    /\ pc = "tca" /\ trace # <<>>
    /\ trace[1].board = 9 /\ trace[1].val = 4 /\ muxReg = 4

\* C3: V2: at the end of every acquisition cycle the snapshot cell of every
\* endpoint whose initialized flag is false is {0, 0, 0, valid = false}: the
\* cycle wrote the zeros into it once and issued no read for it.
C3_UninitCleared ==
    (InCycle /\ sketch = "V2") =>
        \A e \in Boards("V2") \X Slots :
            ~sensorIsInitialized[e] =>
                /\ allReadings.readings[e] = ZeroReading
                /\ allReadings.isValid[e] = FALSE
                /\ Len(EventsFor("clear", e[1], e[2])) = 1
                /\ Len(EventsFor("read", e[1], e[2])) = 0

C3_Witness ==
    /\ Collected
    /\ <<0, 1>> \in RegistrySlots /\ ~sensorIsInitialized[<<0, 1>>]
    /\ sensorIsInitialized[<<0, 0>>] /\ allReadings.isValid[<<0, 0>>]
    /\ allReadings.readings[<<0, 1>>] = ZeroReading
    /\ ~allReadings.isValid[<<0, 1>>]

\* C4: V2: a slot at or beyond its board's sensor count is never flagged
\* initialized, is never the target of begin, startBurst or a read, and is
\* cleared to {0, 0, 0, valid = false} by every cycle.
C4_UnusedSlots ==
    sketch = "V2" =>
        \A b \in Boards("V2") : \A s \in Slots :
            s >= boardConfig[b + 1] =>
                /\ ~sensorIsInitialized[<<b, s>>]
                /\ \A op \in SensorOps : Len(EventsFor(op, b, s)) = 0
                /\ InCycle =>
                      /\ Len(EventsFor("clear", b, s)) = 1
                      /\ allReadings.readings[<<b, s>>] = ZeroReading
                      /\ allReadings.isValid[<<b, s>>] = FALSE

C4_Witness ==
    /\ Collected
    /\ sensorIsInitialized[<<3, 0>>] /\ allReadings.isValid[<<3, 0>>]
    /\ Len(EventsFor("clear", 3, 1)) = 1
    /\ allReadings.readings[<<3, 1>>] = ZeroReading

\* C5: V2: at the end of every cycle each initialized configured cell holds
\* the reading its device delivered in that cycle, marked valid, and every
\* other cell holds {0, 0, 0, valid = false}: nothing of an earlier cycle.
C5_CycleIndependent ==
    (InCycle /\ sketch = "V2") =>
        \A e \in Boards("V2") \X Slots :
            IF e \in RegistrySlots /\ sensorIsInitialized[e]
            THEN /\ allReadings.readings[e] = DeviceSample(sample, e[1], e[2])
                 /\ allReadings.isValid[e] = TRUE
            ELSE /\ allReadings.readings[e] = ZeroReading
                 /\ allReadings.isValid[e] = FALSE

C5_Witness ==
    /\ CycleDone /\ sketch = "V2" /\ sample = MaxSample
    /\ sensorIsInitialized[<<7, 0>>]
    /\ allReadings.readings[<<7, 0>>] = DeviceSample(MaxSample, 7, 0)
    /\ ~sensorIsInitialized[<<2, 4>>]
    /\ allReadings.readings[<<2, 4>>] = ZeroReading

\* C6: setup() calls begin exactly once for every configured (board, slot),
\* in board-then-slot order, sets the flag to (status = 0) and runs to its last
\* line, whatever statuses the devices answer with.
C6_InitNeverAborts ==
    AfterSetup =>
        LET B == Events("begin")
        IN  /\ Len(B) = TotalSlots
            /\ \A e \in RegistrySlots :
                  /\ B[SlotIndex(e) + 1].board = e[1]
                  /\ B[SlotIndex(e) + 1].slot = e[2]
                  /\ B[SlotIndex(e) + 1].val = devStatus[e]
                  /\ sensorIsInitialized[e] = (devStatus[e] = 0)
            /\ trace[Len(trace)].op = "log"
            /\ trace[Len(trace)].text = "All sensors initialized. Mux Shield online."

C6_Witness ==
    /\ AfterSetup /\ sketch = "Mux"
    /\ devStatus[<<0, 1>>] = 1 /\ ~sensorIsInitialized[<<0, 1>>]
    /\ sensorIsInitialized[<<0, 0>>]
    /\ sensorIsInitialized[<<0, 2>>]
    /\ sensorIsInitialized[<<19, 4>>]

\* C7: a burst read is issued only for an endpoint whose initialized flag is
\* true: never for one whose begin failed or that was never initialized.
C7_ReadsGated ==
    \A i \in 1 .. Len(trace) :
        trace[i].op = "read" =>
            /\ sensorIsInitialized[<<trace[i].board, trace[i].slot>>]
            /\ <<trace[i].board, trace[i].slot>> \in RegistrySlots
            /\ devStatus[<<trace[i].board, trace[i].slot>>] = 0

C7_Witness ==
    /\ CycleDone /\ sketch = "Mux"
    /\ ~sensorIsInitialized[<<8, 0>>]
    /\ Len(EventsFor("read", 8, 0)) = 0
    /\ Len(EventsFor("read", 8, 1)) = 1

\* the field was printed by the loop iteration of endpoint e
PrintedFor(f, e) == \A k \in 1 .. Len(f) : f[k].board = e[1] /\ f[k].slot = e[2]

\* C8: every record has exactly 3 fields per configured slot, the three of a
\* slot together, slots in ascending board then slot order, whichever sensors
\* initialized.
C8_FixedColumns ==
    CycleDone =>
        LET F == Fields
        IN  /\ Len(F) = 3 * TotalSlots
            /\ \A e \in RegistrySlots : \A a \in 1 .. 3 :
                  PrintedFor(F[3 * SlotIndex(e) + a], e)

C8_Witness ==
    /\ CycleDone /\ sketch = "V2"
    /\ ~sensorIsInitialized[<<7, 0>>]
    /\ Len(Fields) = 60

\* C9 (as stated): every field of every record, those of endpoints that
\* failed initialization included, reads Board<b>Sensor<s><Axis>:<value>.
C9_EveryFieldTagged ==
    CycleDone =>
        LET F == Fields
        IN  \A e \in RegistrySlots : \A a \in 1 .. 3 :
                /\ 3 * SlotIndex(e) + a <= Len(F)
                /\ Tagged(F[3 * SlotIndex(e) + a], e[1], e[2], Axes[a])

\* C10: in every record the three fields of a configured slot whose
\* initialized flag is false are present and carry the value 0.
C10_FailedSlotsZero ==
    CycleDone =>
        LET F == Fields
        IN  \A e \in RegistrySlots :
                ~sensorIsInitialized[e] =>
                    \A a \in 1 .. 3 :
                        /\ 3 * SlotIndex(e) + a <= Len(F)
                        /\ PrintedFor(F[3 * SlotIndex(e) + a], e)
                        /\ HasValue(F[3 * SlotIndex(e) + a], 0)

C10_Witness ==
    /\ CycleDone /\ sketch = "Mux"
    /\ \A s \in Slots : ~sensorIsInitialized[<<3, s>>]
    /\ sensorIsInitialized[<<0, 0>>]
    /\ \A k \in 46 .. 60 : HasValue(Fields[k], 0)

SetupDoneText == "All sensors initialized. Mux Shield online."

\* the position in the trace of the last event of the first run of setup()
FirstRunEnd ==
    CHOOSE i \in 1 .. Len(trace) :
        /\ trace[i].op = "log" /\ trace[i].text = SetupDoneText
        /\ \A j \in 1 .. i - 1 :
              ~(trace[j].op = "log" /\ trace[j].text = SetupDoneText)

\* the flag of e as the first run left it: its last write in that run, or the
\* zero the global starts with
FlagAfterFirstRun(e) ==
    LET W == {i \in 1 .. FirstRunEnd :
                 trace[i].op = "flag" /\ trace[i].board = e[1] /\ trace[i].slot = e[2]}
    IN  IF W = {} THEN FALSE
        ELSE trace[CHOOSE i \in W : \A j \in W : j <= i].val = 1

\* C11: setup() run twice in succession against devices that answer begin()
\* with the same status both times leaves every sensorIsInitialized flag after
\* the second run as it was after the first.
C11_InitIdempotent ==
    pc = "reinit" =>
        \A e \in Boards(sketch) \X Slots :
            sensorIsInitialized[e] = FlagAfterFirstRun(e)

C11_Witness ==
    /\ pc = "reinit" /\ sketch = "V2"
    /\ Len(Events("begin")) = 2 * TotalSlots
    /\ sensorIsInitialized[<<0, 0>>] /\ FlagAfterFirstRun(<<0, 0>>)
    /\ ~sensorIsInitialized[<<0, 1>>] /\ ~FlagAfterFirstRun(<<0, 1>>)

\* the device reads and the cell writes of the trace, in the order they happened
CellOps == SelectSeq(trace, LAMBDA e : e.op \in {"read", "clear"})

\* the place of a slot in the order "boards ascending, slots ascending"
Rank(e) == e.board * MAX_SLOTS + e.slot

\* C12: within one cycle the device reads and cell writes happen board by
\* board in ascending board order and in ascending slot order within a board:
\* after an operation on board b none follows on a lower board, and the
\* operations of one board are contiguous.
C12_BoardsInOrder ==
    InCycle =>
        \A i \in 1 .. Len(CellOps) - 1 : Rank(CellOps[i]) < Rank(CellOps[i + 1])

C12_Witness ==
    /\ CycleDone
    /\ \E i \in 1 .. Len(CellOps) - 1 :
          /\ CellOps[i].op = "read" /\ CellOps[i + 1].op = "clear"
          /\ CellOps[i].board = CellOps[i + 1].board
    /\ \E i \in 1 .. Len(CellOps) - 1 :
          /\ CellOps[i].op = "clear" /\ CellOps[i + 1].op = "read"
          /\ CellOps[i].board + 1 = CellOps[i + 1].board

SameSlot(e, f) == e.board = f.board /\ e.slot = f.slot

\* startBurst is called only for a device whose begin() returns 0
ArmedOnlyOnSuccess ==
    \A i \in 1 .. Len(trace) :
        trace[i].op = "startBurst" =>
            devStatus[<<trace[i].board, trace[i].slot>>] = 0

\* C13 as the specification states it: on a begin() that returned 0 the slot
\* is first marked initialized and only then is its burst mode armed, and the
\* burst mode is never armed for a slot whose begin() returned nonzero.
C13_FlagThenBurst ==
    AfterSetup =>
        /\ ArmedOnlyOnSuccess
        /\ \A i \in 1 .. Len(trace) :
              trace[i].op = "startBurst" =>
                  \E j \in 1 .. i - 1 :
                      /\ trace[j].op = "flag" /\ trace[j].val = 1
                      /\ SameSlot(trace[j], trace[i])

\* C13, amended: on a begin() that returned 0 the burst mode of the slot is
\* armed first and the slot is marked initialized in the step right after it;
\* no slot is marked initialized before its burst mode is armed, and the burst
\* mode is never armed for a slot whose begin() returned nonzero.
C13_BurstThenFlag ==
    AfterSetup =>
        /\ ArmedOnlyOnSuccess
        /\ \A i \in 1 .. Len(trace) :
              /\ trace[i].op = "startBurst" =>
                    /\ i < Len(trace)
                    /\ trace[i + 1].op = "flag" /\ trace[i + 1].val = 1
                    /\ SameSlot(trace[i + 1], trace[i])
              /\ (trace[i].op = "flag" /\ trace[i].val = 1) =>
                    /\ i > 1
                    /\ trace[i - 1].op = "startBurst"
                    /\ SameSlot(trace[i - 1], trace[i])
              /\ (trace[i].op = "begin" /\ trace[i].val = 0) =>
                    /\ i + 2 <= Len(trace)
                    /\ trace[i + 2].op = "startBurst"
                    /\ SameSlot(trace[i + 2], trace[i])

C13_Witness ==
    /\ AfterSetup
    /\ Len(Events("startBurst")) > 0
    /\ Len(Events("startBurst")) < TotalSlots
    /\ \E i \in 1 .. Len(trace) : trace[i].op = "begin" /\ trace[i].val = 1
    /\ \E i \in 1 .. Len(trace) : trace[i].op = "begin" /\ trace[i].val = 255

PrintOps == {"print", "printNum", "println"}

\* the positions in the trace of the writes to the serial port
PrintPositions == {i \in 1 .. Len(trace) : trace[i].op \in PrintOps}

FirstPrint == CHOOSE i \in PrintPositions : \A j \in PrintPositions : i <= j

LastPrint == CHOOSE i \in PrintPositions : \A j \in PrintPositions : j <= i

\* C14: the record of a cycle is written from a complete snapshot: no field
\* is written before the cell of every board and each of its 5 slots has been
\* written (read or cleared) in that cycle, and no device read and no channel
\* select happens between the first and the last field of the record.
C14_CompleteSnapshot ==
    (CycleDone /\ PrintPositions # {}) =>
        /\ \A e \in Boards(sketch) \X Slots :
              \E j \in 1 .. FirstPrint - 1 :
                  /\ trace[j].op \in {"read", "clear"}
                  /\ trace[j].board = e[1] /\ trace[j].slot = e[2]
        /\ \A j \in FirstPrint .. LastPrint :
              trace[j].op \notin {"read", "select"}

\* the same statement for the V2 sketch alone
C14_CompleteSnapshotV2 == sketch = "V2" => C14_CompleteSnapshot

\* a step of loop(): every step but the one that runs setup()
CycleStep == pc # "setup"

\* C15: the initialized flags are written by setup() only: no step of a
\* cycle writes sensorIsInitialized, so after setup() every flag keeps the
\* value setup() gave it.
C15_FlagsFrozen ==
    [][CycleStep =>
          /\ sensorIsInitialized' = sensorIsInitialized
          /\ \A i \in 1 .. Len(trace') : trace'[i].op # "flag"]_vars

C15_Witness ==
    /\ CycleDone
    /\ Len(Events("read")) > 0
    /\ Len(Events("read")) < TotalSlots
    /\ \E e \in RegistrySlots : sensorIsInitialized[e]
    /\ \E e \in RegistrySlots : ~sensorIsInitialized[e]

\* the operations loop() performs on a slot while its board is selected
SlotOps ==
    IF sketch = "V2" THEN {"read", "clear"} ELSE {"read", "print", "printNum"}

SelectsOf(board) ==
    {i \in 1 .. Len(trace) : trace[i].op = "select" /\ trace[i].board = board}

\* C16: in a cycle tcaSelect is called exactly once for each board, the
\* settling delay follows the call at once and is over before the first device
\* transaction of the board, and the slot operations of the board follow that
\* delay without another tcaSelect call in between.
\* The select is the call: for the boards above 7 of the Mux sketch the call
\* writes nothing to the multiplexer, which is what C1 is about.
C16_SelectSettleRead ==
    InCycle =>
        /\ \A b \in Boards(sketch) : Cardinality(SelectsOf(b)) = 1
        /\ \A i \in 1 .. Len(trace) :
              /\ trace[i].op = "select" =>
                    /\ i < Len(trace)
                    /\ trace[i + 1].op = "delay" /\ trace[i + 1].val > 0
                    /\ trace[i + 1].board = trace[i].board
              /\ trace[i].op \in SlotOps =>
                    /\ i > 2
                    /\ trace[i - 1].board = trace[i].board
                    /\ \/ trace[i - 1].op \in SlotOps
                       \/ /\ trace[i - 1].op = "delay"
                          /\ trace[i - 2].op = "select"
                          /\ trace[i - 2].board = trace[i].board
        /\ sketch = "V2" => Len(CellOps) = NUMBER_OF_BOARDS_V2 * MAX_SLOTS

C16_Witness ==
    /\ CycleDone
    /\ \E i \in 1 .. Len(trace) - 3 :
          /\ trace[i].op = "select" /\ trace[i].board = 7
          /\ trace[i + 1].op = "delay"
          /\ trace[i + 2].op = "read" /\ trace[i + 2].board = 7
          /\ trace[i + 3].op # "select"

\* a register value with no channel or exactly one of the channels 0..7 active
AtMostOneChannel(r) == r = 0 \/ \E j \in 0 .. 7 : r = 2 ^ j

\* C17: in every reachable state at most one multiplexer channel is active:
\* the register holds its power-on value 0 or a mask with exactly one of the
\* bits 0..7 set, and the register changes only in a tcaSelect step.
C17_OneChannelActive ==
    /\ AtMostOneChannel(muxReg)
    /\ trace # <<>> => trace[Len(trace)].reg = muxReg
    /\ \A i \in 1 .. Len(trace) :
          /\ AtMostOneChannel(trace[i].reg)
          /\ trace[i].op = "select" => AtMostOneChannel(trace[i].val)
          /\ i > 1 =>
                IF trace[i].op = "select"
                THEN trace[i].val = trace[i - 1].reg
                ELSE trace[i].reg = trace[i - 1].reg

C17_Witness ==
    /\ CycleDone
    /\ muxReg = 128
    /\ \E i \in 2 .. Len(trace) :
          /\ trace[i].op = "select" /\ trace[i].val = 4 /\ trace[i].reg = 8
          /\ trace[i - 1].reg = 4
    /\ trace[1].op = "select" /\ trace[1].val = 128 /\ trace[1].reg = 1

\* the step that ends a cycle: it writes the record's line terminator
EndOfRecord == EmitRecord \/ MuxLoop

\* the last position of the trace that writes a field of the record
LastField ==
    CHOOSE i \in 1 .. Len(trace) :
        /\ trace[i].op \in {"print", "printNum"}
        /\ \A j \in i + 1 .. Len(trace) : trace[j].op \notin {"print", "printNum"}

\* the one line terminator of the cycle comes after the last field
OneTerminator ==
    /\ Len(Events("println")) = 1
    /\ \E i \in LastField + 1 .. Len(trace) : trace[i].op = "println"

\* C18: one record per cycle, and the stream never stops: with loop() called
\* again and again, every cycle writes exactly one line terminator, after its
\* last field, every cycle starts with the channel select of board 0, and
\* cycles are completed (line terminators written) infinitely often.
C18_StreamsForever ==
    /\ [](CycleDone => OneTerminator)
    /\ [](InCycle => trace[1].op = "select" /\ trace[1].board = 0)
    /\ []<><<EndOfRecord>>_vars

C18_Witness ==
    /\ CycleDone
    /\ OneTerminator
    /\ sample = MaxSample
    /\ trace[1].op = "select" /\ trace[1].val = 128
    /\ Len(Fields) > 0

\* the cell of e holds a valid reading exactly if e is a configured slot whose
\* sensor initialized
ValidIffInitialized ==
    \A e \in Boards(sketch) \X Slots :
        allReadings.isValid[e] <=> (e \in RegistrySlots /\ sensorIsInitialized[e])

\* every cell of the snapshot is {0, 0, 0, valid = false}
AllCellsCleared ==
    \A e \in Boards(sketch) \X Slots :
        allReadings.readings[e] = ZeroReading /\ ~allReadings.isValid[e]

\* C19 as the specification states it: V2: at the end of setup() and at the
\* end of every cycle, for every board and all 5 slots, isValid is true exactly
\* if the slot is configured and its sensor initialized; before the first cycle
\* every cell is {0, 0, 0, valid = false}.
C19_ValidAfterSetupToo ==
    sketch = "V2" =>
        /\ (AfterSetup \/ InCycle) => ValidIffInitialized
        /\ (pc = "setup" \/ AfterSetup) => AllCellsCleared

\* C19, amended: V2: at the end of every cycle (not at the end of setup()), for
\* every board and all 5 slots, isValid is true exactly if the slot is
\* configured and its sensor initialized; at the end of setup() and before the
\* first cycle every cell is {0, 0, 0, valid = false}, whatever the flags are.
C19_ValidAfterCycle ==
    sketch = "V2" =>
        /\ InCycle => ValidIffInitialized
        /\ (pc = "setup" \/ AfterSetup) => AllCellsCleared

C19_Witness ==
    /\ sketch = "V2"
    /\ CycleDone
    /\ allReadings.isValid[<<2, 4>>] /\ sensorIsInitialized[<<2, 4>>]
    /\ ~allReadings.isValid[<<2, 3>>] /\ ~sensorIsInitialized[<<2, 3>>]
    /\ ~allReadings.isValid[<<3, 1>>]

====
